---- MODULE Spec2Model ----
(***************************************************************************)
(* A model of fetch_papers.py: one run of main() fetches the arXiv feed,   *)
(* filters its entries to the recency window, renders the report, writes   *)
(* report_<YYYYMMDD>.html and, when SMTP credentials are set, mails it.    *)
(*                                                                         *)
(* Text is a sequence of one-character strings.  Time is counted in ticks, *)
(* TicksPerDay of them to a calendar day; the local clock and the UTC      *)
(* clock are taken to be the same clock.                                   *)
(***************************************************************************)
EXTENDS Integers, Sequences, FiniteSets, TLC

VARIABLES
    pc,             \* position of the run in main() / fetch_arxiv_papers()
    now,            \* the system clock, in ticks
    env,            \* the process environment (SMTP_* variables)
    response,       \* the HTTP response of requests.get
    root,           \* the entries of the parsed feed (root.findall)
    i,              \* index of the next entry of the for loop
    seven_days_ago, \* the cutoff of line 38
    papers,         \* the list built by fetch_arxiv_papers
    email_content,  \* the document returned by format_email_body
    output_file,    \* the artifact name of line 93
    files,          \* the working directory: a set of [name, content]
    smtp_user,      \* local of main(), line 101
    smtp_pass,      \* local of main(), line 102
    stdout,         \* the diagnostics printed by this run, in order
    calls,          \* the external calls made by this run, in order
    exc,            \* the exception that ended the run, or "none"
    run,            \* number of runs started so far
    wrote           \* history: [date, name, run, content] of every artifact write

vars == <<pc, now, env, response, root, i, seven_days_ago, papers,
          email_content, output_file, files, smtp_user, smtp_pass,
          stdout, calls, exc, run, wrote>>

-----------------------------------------------------------------------------
(* Bounds of the model *)

MaxFeed == 2
MaxTicks == 1
MaxRuns == 3
MaxPapers == 2
MaxShort == 1
MaxNear == 1
TicksPerDay == 2

(* Program constants *)

Days == 7
SummaryLimit == 500

-----------------------------------------------------------------------------
(* Values *)

Min(a, b) == IF a < b THEN a ELSE b

\* Python's None where a text is expected: a sequence that is no text.
None == <<"<None>">>

\* An element looked up with entry.find(): missing, present with .text None,
\* or present with a text.
Absent == [node |-> "absent"]
Empty == [node |-> "empty"]
Text(t) == [node |-> "text", text |-> t]

\* The text of a node, as node.text gives it.
NodeText(n) == IF n.node = "text" THEN n.text ELSE None

\* A published text in the format '%Y-%m-%dT%H:%M:%SZ' for the tick t, and a
\* text that is not in that format.
Stamp(t) == [valid |-> TRUE, day |-> t \div TicksPerDay, tod |-> t % TicksPerDay]
BadStamp == [valid |-> FALSE, day |-> 0, tod |-> 0]

StartNow == 10 * TicksPerDay + (TicksPerDay - 1)
MaxNow == StartNow + MaxTicks
Cutoff0 == StartNow - Days * TicksPerDay

\* The calendar: day 0 is 2024-12-20, so the runs cross a month and a year.
DateOf(day) == IF day <= 11 THEN <<2024, 12, 20 + day>> ELSE <<2025, 1, day - 11>>
Today(t) == DateOf(t \div TicksPerDay)

-----------------------------------------------------------------------------
(* Pure functions of the program *)

IsSpace(c) == c \in {" ", "\n", "\t"}

RECURSIVE LStrip(_)
LStrip(s) == IF s = <<>> THEN s
             ELSE IF IsSpace(Head(s)) THEN LStrip(Tail(s)) ELSE s

RECURSIVE RStrip(_)
RStrip(s) == IF s = <<>> THEN s
             ELSE IF IsSpace(s[Len(s)]) THEN RStrip(SubSeq(s, 1, Len(s) - 1)) ELSE s

\* str.strip()
Strip(s) == RStrip(LStrip(s))

\* str.replace('\n', ' ')
ReplaceNewlines(s) == [k \in 1..Len(s) |-> IF s[k] = "\n" THEN " " ELSE s[k]]

SemTitulo == <<"S", "e", "m", " ", "t", "i", "t", "u", "l", "o">>
SemResumo == <<"S", "e", "m", " ", "r", "e", "s", "u", "m", "o">>

\* datetime.strptime(published_str, '%Y-%m-%dT%H:%M:%SZ'): the tick, or the
\* exception raised.
Strptime(n) ==
    IF n.node = "empty" THEN [exc |-> "TypeError", at |-> 0]
    ELSE IF ~n.text.valid THEN [exc |-> "ValueError", at |-> 0]
    ELSE [exc |-> "none", at |-> n.text.day * TicksPerDay + n.text.tod]

\* title_node.text.strip().replace('\n', ' ') if title_node is not None else dflt
NormText(n, dflt) ==
    IF n.node = "absent" THEN [exc |-> "none", text |-> dflt]
    ELSE IF n.node = "empty" THEN [exc |-> "AttributeError", text |-> None]
    ELSE [exc |-> "none", text |-> ReplaceNewlines(Strip(n.text))]

\* link_node.text if link_node is not None else ""
LinkOf(n) == IF n.node = "absent" THEN <<>> ELSE NodeText(n)

\* [author.find('atom:name').text for author in ... if find(...) is not None]
RECURSIVE AuthorsOf(_)
AuthorsOf(as) ==
    IF as = <<>> THEN <<>>
    ELSE IF Head(as).node = "absent" THEN AuthorsOf(Tail(as))
    ELSE <<NodeText(Head(as))>> \o AuthorsOf(Tail(as))

\* published_date >= seven_days_ago
InWindow(at, cutoff) == at >= cutoff

\* The dictionary appended at lines 59-65.
PaperRecord(e, at) ==
    [title |-> NormText(e.title, SemTitulo).text,
     summary |-> NormText(e.summary, SemResumo).text,
     link |-> LinkOf(e.id),
     authors |-> AuthorsOf(e.author),
     published |-> DateOf(at \div TicksPerDay)]

\* ', '.join(names)
RECURSIVE Join(_)
Join(names) ==
    IF names = <<>> THEN <<>>
    ELSE IF Len(names) = 1 THEN Head(names)
    ELSE Head(names) \o <<",", " ">> \o Join(Tail(names))

\* A slice one character short, p['summary'][:499].
SliceShort(s, n) == SubSeq(s, 1, Min(Len(s), n - 1))

\* p['summary'][:500]
Slice(s, n) == SubSeq(s, 1, Min(Len(s), n))

\* The summary line of line 80: a token for the fixed opening, the sliced
\* summary, the ellipsis marker and a token for the fixed closing.
ResumoLine(p) ==
    <<"<p><b>Resumo:</b> ">> \o Slice(p.summary, SummaryLimit) \o <<"...">> \o <<"</p>">>

\* The block of one paper, lines 77-81.
Block(p) ==
    [href |-> p.link, h3 |-> p.title, autores |-> Join(p.authors),
     data |-> p.published, resumo |-> ResumoLine(p)]

NoDoc == [kind |-> "none", periodo |-> <<>>, blocks |-> <<>>]
Placeholder == [kind |-> "placeholder", periodo |-> <<>>, blocks |-> <<>>]

\* format_email_body(papers), rendered at tick t ('%d/%m/%Y' in the header).
FormatEmailBody(ps, t) ==
    IF ps = <<>> THEN Placeholder
    ELSE [kind |-> "report",
          periodo |-> <<Today(t)[3], Today(t)[2], Today(t)[1]>>,
          blocks |-> [k \in 1..Len(ps) |-> Block(ps[k])]]

\* ', '.join raises TypeError when an author name is None.
JoinRaises(ps) == \E k \in 1..Len(ps) : \E a \in 1..Len(ps[k].authors) : ps[k].authors[a] = None

\* A name without the day, strftime('%Y%m').
ReportNameOfMonth(t) == Today(t)[1] * 100 + Today(t)[2]

\* strftime('%Y%m%d') of line 93: the digits of report_<YYYYMMDD>.html.
ReportName(t) == Today(t)[1] * 10000 + Today(t)[2] * 100 + Today(t)[3]

\* open(output_file, 'w') ... f.write(content): creates or replaces the file.
WriteFile(fs, name, content) ==
    {f \in fs : f.name # name} \cup {[name |-> name, content |-> content]}

\* os.getenv(name) and os.getenv(name, default)
Unset == [set |-> FALSE, val |-> <<>>]
SetTo(v) == [set |-> TRUE, val |-> v]
Getenv(v, dflt) == IF v.set THEN v.val ELSE dflt

\* not smtp_user: None and the empty string are both falsy.
Falsy(v) == v = None \/ v = <<>>

DigitVal(c) ==
    CASE c = "0" -> 0 [] c = "1" -> 1 [] c = "2" -> 2 [] c = "3" -> 3 [] c = "4" -> 4
      [] c = "5" -> 5 [] c = "6" -> 6 [] c = "7" -> 7 [] c = "8" -> 8 [] c = "9" -> 9
      [] OTHER -> -1

RECURSIVE DigitsVal(_)
DigitsVal(s) == IF s = <<>> THEN 0 ELSE DigitsVal(SubSeq(s, 1, Len(s) - 1)) * 10 + DigitVal(s[Len(s)])

\* int(text) for the unsigned decimal texts of the model.
ParseInt(s) ==
    IF s # <<>> /\ \A k \in 1..Len(s) : DigitVal(s[k]) >= 0
    THEN [exc |-> "none", val |-> DigitsVal(s)]
    ELSE [exc |-> "ValueError", val |-> 0]

-----------------------------------------------------------------------------
(* The inputs of the model: feed entries, feeds, HTTP responses, environments *)

Entry(p, t, s, l, a) == [published |-> p, title |-> t, summary |-> s, id |-> l, author |-> a]

Fresh == Text(Stamp(Cutoff0 + MaxTicks))
ATitle == Text(<<" ", "a", "\n", "b", " ">>)
ASummary == Text(<<"x", "\n", "y", "\n">>)
AName == <<Text(<<"n">>)>>

\* Entries that differ in their published element.
ByPublished ==
    {Entry(Text(Stamp(Cutoff0 - 1)), ATitle, ASummary, Text(<<"1">>), AName),
     Entry(Text(Stamp(Cutoff0)), ATitle, ASummary, Text(<<"2">>), AName),
     Entry(Fresh, ATitle, ASummary, Text(<<"3">>), AName),
     Entry(Absent, ATitle, ASummary, Text(<<"4">>), AName),
     Entry(Empty, ATitle, ASummary, Text(<<"5">>), AName),
     Entry(Text(BadStamp), ATitle, ASummary, Text(<<"6">>), AName)}

\* Recent entries that differ in title, summary, id and authors.
ByContent ==
    {Entry(Fresh, Absent, Absent, Absent, <<>>),
     Entry(Fresh, Empty, ASummary, Text(<<"7">>), AName),
     Entry(Fresh, Text(<<" ", "\n">>), Empty, Text(<<"8">>), <<Absent, Text(<<"m">>)>>),
     Entry(Fresh, ATitle, ASummary, Empty, <<Empty>>)}

Entries == ByPublished \cup ByContent

SeqsUpTo(S, n) == UNION {[1..k -> S] : k \in 0..n}

Feeds == SeqsUpTo(Entries, MaxFeed)

\* The feeds of the specification of repeated runs.
FewFeeds == SeqsUpTo({Entry(Fresh, ATitle, ASummary, Text(<<"3">>), AName),
                      Entry(Text(BadStamp), ATitle, ASummary, Text(<<"6">>), AName)}, 1)

Malformed == [wellformed |-> FALSE, entries |-> <<>>]
Document(feed) == [wellformed |-> TRUE, entries |-> feed]
NoResponse == [status_code |-> 0, content |-> Malformed]

\* What the server may answer with the feeds F: a feed or a body that is not
\* XML under status 200, an error page or an empty feed under another status.
Responses(F) ==
    {[status_code |-> 200, content |-> c] : c \in {Document(f) : f \in F} \cup {Malformed}}
    \cup {[status_code |-> s, content |-> c] : s \in {404, 503}, c \in {Malformed, Document(<<>>)}}

Envs ==
    [SMTP_PORT : {Unset, SetTo(<<"2", "5">>), SetTo(<<"a">>)},
     SMTP_USER : {Unset, SetTo(<<>>), SetTo(<<"u">>)},
     SMTP_PASS : {Unset, SetTo(<<"p">>)}]

-----------------------------------------------------------------------------
(* Initial state: the process starts, the working directory is empty *)

Init ==
    /\ pc = "main"
    /\ now = StartNow
    /\ env \in Envs
    /\ response = NoResponse
    /\ root = <<>>
    /\ i = 1
    /\ seven_days_ago = 0
    /\ papers = <<>>
    /\ email_content = NoDoc
    /\ output_file = 0
    /\ files = {}
    /\ smtp_user = None
    /\ smtp_pass = None
    /\ stdout = <<>>
    /\ calls = <<>>
    /\ exc = "none"
    /\ run = 1
    /\ wrote = {}

\* An unhandled exception ends the run.
Raise(e) == pc' = "crashed" /\ exc' = e

-----------------------------------------------------------------------------
(* fetch_arxiv_papers *)

\* Line 86: main() announces the search and calls fetch_arxiv_papers.
Start ==
    /\ pc = "main"
    /\ pc' = "get"
    /\ stdout' = Append(stdout, "Iniciando busca")
    /\ UNCHANGED <<now, env, response, root, i, seven_days_ago, papers, email_content,
                   output_file, files, smtp_user, smtp_pass, calls, exc, run, wrote>>

\* A request that is repeated once when it fails.
HttpGetRetry(F) ==
    /\ pc = "get"
    /\ calls' = Append(calls, "requests.get")
    /\ \/ /\ IF calls = <<>> THEN pc' = "get" /\ UNCHANGED exc ELSE Raise("ConnectionError")
          /\ UNCHANGED response
       \/ /\ response' \in Responses(F)
          /\ pc' = "status"
          /\ UNCHANGED exc
    /\ UNCHANGED <<now, env, root, i, seven_days_ago, papers, email_content,
                   output_file, files, smtp_user, smtp_pass, stdout, run, wrote>>

\* Line 29: requests.get answers, or raises a transport error nobody catches.
HttpGet(F) ==
    /\ pc = "get"
    /\ calls' = Append(calls, "requests.get")
    /\ \/ /\ Raise("ConnectionError")
          /\ UNCHANGED response
       \/ /\ response' \in Responses(F)
          /\ pc' = "status"
          /\ UNCHANGED exc
    /\ UNCHANGED <<now, env, root, i, seven_days_ago, papers, email_content,
                   output_file, files, smtp_user, smtp_pass, stdout, run, wrote>>

\* Lines 30-32 and 88: a status other than 200 is reported and gives no papers.
CheckStatus ==
    /\ pc = "status"
    /\ IF response.status_code # 200
       THEN /\ papers' = <<>>
            /\ stdout' = stdout \o <<"Erro ao acessar ArXiv API", "Encontrados">>
            /\ response' = NoResponse
            /\ pc' = "render"
       ELSE /\ pc' = "parse"
            /\ UNCHANGED <<papers, stdout, response>>
    /\ UNCHANGED <<now, env, root, i, seven_days_ago, email_content,
                   output_file, files, smtp_user, smtp_pass, calls, exc, run, wrote>>

\* Lines 34-38: ET.fromstring parses the body or raises ParseError; the cutoff
\* is taken from the clock.
ParseXml ==
    /\ pc = "parse"
    /\ calls' = Append(calls, "ET.fromstring")
    /\ IF response.content.wellformed
       THEN /\ root' = response.content.entries
            /\ i' = 1
            /\ papers' = <<>>
            /\ seven_days_ago' = now - Days * TicksPerDay
            /\ pc' = "loop"
            /\ UNCHANGED exc
       ELSE /\ Raise("ParseError")
            /\ UNCHANGED <<root, i, papers, seven_days_ago>>
    /\ UNCHANGED <<now, env, response, email_content, output_file, files,
                   smtp_user, smtp_pass, stdout, run, wrote>>

\* Lines 40-65: one iteration of the loop over the entries.
LoopEntry ==
    /\ pc = "loop"
    /\ i <= Len(root)
    /\ LET e == root[i]
           d == Strptime(e.published)
           t == NormText(e.title, SemTitulo)
           s == NormText(e.summary, SemResumo)
       IN  IF e.published.node = "absent"
           THEN /\ i' = i + 1
                /\ UNCHANGED <<papers, pc, exc>>
           ELSE IF d.exc # "none"
           THEN /\ Raise(d.exc)
                /\ UNCHANGED <<papers, i>>
           ELSE IF ~InWindow(d.at, seven_days_ago)
           THEN /\ i' = i + 1
                /\ UNCHANGED <<papers, pc, exc>>
           ELSE IF t.exc # "none" \/ s.exc # "none"
           THEN /\ Raise("AttributeError")
                /\ UNCHANGED <<papers, i>>
           ELSE /\ papers' = Append(papers, PaperRecord(e, d.at))
                /\ i' = i + 1
                /\ UNCHANGED <<pc, exc>>
    /\ UNCHANGED <<now, env, response, root, seven_days_ago, email_content, output_file,
                   files, smtp_user, smtp_pass, stdout, calls, run, wrote>>

\* Lines 67 and 88: the loop is over, the list is returned and counted; the
\* locals of fetch_arxiv_papers are gone.
LoopExit ==
    /\ pc = "loop"
    /\ i > Len(root)
    /\ pc' = "render"
    /\ stdout' = Append(stdout, "Encontrados")
    /\ root' = <<>>
    /\ i' = 1
    /\ response' = NoResponse
    /\ UNCHANGED <<now, env, seven_days_ago, papers, email_content, output_file,
                   files, smtp_user, smtp_pass, calls, exc, run, wrote>>

-----------------------------------------------------------------------------
(* main, after the fetch *)

\* Line 90: format_email_body(papers); ', '.join raises on a None author.
Render ==
    /\ pc = "render"
    /\ calls' = Append(calls, "format_email_body")
    /\ IF JoinRaises(papers)
       THEN /\ Raise("TypeError")
            /\ UNCHANGED email_content
       ELSE /\ email_content' = FormatEmailBody(papers, now)
            /\ pc' = "write"
            /\ UNCHANGED exc
    /\ UNCHANGED <<now, env, response, root, i, seven_days_ago, papers, output_file,
                   files, smtp_user, smtp_pass, stdout, run, wrote>>

\* Lines 93-96: the report is written under the name of the current date.
WriteArtifact ==
    /\ pc = "write"
    /\ output_file' = ReportName(now)
    /\ files' = WriteFile(files, output_file', email_content)
    /\ wrote' = wrote \cup {[date |-> Today(now), name |-> output_file',
                            run |-> run, content |-> email_content]}
    /\ calls' = Append(calls, "open")
    /\ stdout' = Append(stdout, "Relatorio gerado")
    /\ pc' = "env"
    /\ UNCHANGED <<now, env, response, root, i, seven_days_ago, papers, email_content,
                   smtp_user, smtp_pass, exc, run>>

\* Lines 99-106: the SMTP settings are read; int() raises on a port that is
\* no number; without user or password the delivery is skipped.
ReadEnv ==
    /\ pc = "env"
    /\ LET port == ParseInt(Getenv(env.SMTP_PORT, <<"5", "8", "7">>))
           user == Getenv(env.SMTP_USER, None)
           pass == Getenv(env.SMTP_PASS, None)
       IN  IF port.exc # "none"
           THEN /\ Raise(port.exc)
                /\ UNCHANGED <<smtp_user, smtp_pass, stdout>>
           ELSE /\ smtp_user' = user
                /\ smtp_pass' = pass
                /\ UNCHANGED exc
                /\ IF Falsy(user) \/ Falsy(pass)
                   THEN /\ stdout' = Append(stdout, "Pulando envio")
                        /\ pc' = "done"
                   ELSE /\ pc' = "connect"
                        /\ UNCHANGED stdout
    /\ UNCHANGED <<now, env, response, root, i, seven_days_ago, papers, email_content,
                   output_file, files, calls, run, wrote>>

\* The calls of lines 116-120 without the try block around them.
SmtpCallUncaught(at, call, next) ==
    /\ pc = at
    /\ calls' = Append(calls, call)
    /\ \/ /\ pc' = next
          /\ stdout' = IF next = "done" THEN Append(stdout, "E-mail enviado") ELSE stdout
          /\ UNCHANGED exc
       \/ /\ Raise("SMTPException")
          /\ UNCHANGED stdout
    /\ UNCHANGED <<now, env, response, root, i, seven_days_ago, papers, email_content,
                   output_file, files, smtp_user, smtp_pass, run, wrote>>

\* One call of the try block of lines 108-123: it returns, or it raises and
\* the except clause prints the error and main returns.
SmtpCall(at, call, next) ==
    /\ pc = at
    /\ calls' = Append(calls, call)
    /\ \/ /\ pc' = next
          /\ stdout' = IF next = "done" THEN Append(stdout, "E-mail enviado") ELSE stdout
       \/ /\ pc' = "done"
          /\ stdout' = Append(stdout, "Erro ao enviar e-mail")
    /\ UNCHANGED <<now, env, response, root, i, seven_days_ago, papers, email_content,
                   output_file, files, smtp_user, smtp_pass, exc, run, wrote>>

\* Line 116
SmtpConnect == SmtpCall("connect", "smtplib.SMTP", "starttls")
\* Line 117
StartTls == SmtpCall("starttls", "starttls", "login")
\* Line 118
Login == SmtpCall("login", "login", "send")
\* Line 119
SendMessage == SmtpCall("send", "send_message", "quit")
\* Lines 120-121
Quit == SmtpCall("quit", "quit", "done")

\* Time passes while the run is under way.
Tick ==
    /\ pc \notin {"done", "crashed"}
    /\ now < MaxNow
    /\ now' = now + 1
    /\ UNCHANGED <<pc, env, response, root, i, seven_days_ago, papers, email_content,
                   output_file, files, smtp_user, smtp_pass, stdout, calls, exc, run, wrote>>

\* The script is started again: a new process, the same working directory.
NewRun ==
    /\ pc \in {"done", "crashed"}
    /\ run < MaxRuns
    /\ run' = run + 1
    /\ pc' = "main"
    /\ response' = NoResponse
    /\ root' = <<>>
    /\ i' = 1
    /\ seven_days_ago' = 0
    /\ papers' = <<>>
    /\ email_content' = NoDoc
    /\ output_file' = 0
    /\ smtp_user' = None
    /\ smtp_pass' = None
    /\ stdout' = <<>>
    /\ calls' = <<>>
    /\ exc' = "none"
    /\ env' \in Envs
    /\ UNCHANGED <<now, files, wrote>>

-----------------------------------------------------------------------------
(* Specifications *)

\* One run, over every feed of the model.
Next ==
    \/ Start
    \/ HttpGet(Feeds)
    \/ CheckStatus
    \/ ParseXml
    \/ LoopEntry
    \/ LoopExit
    \/ Render
    \/ WriteArtifact
    \/ ReadEnv
    \/ SmtpConnect
    \/ StartTls
    \/ Login
    \/ SendMessage
    \/ Quit
    \/ Tick

Spec == Init /\ [][Next]_vars

\* Repeated runs in one working directory, over a few feeds.
NextRuns ==
    \/ Start
    \/ HttpGet(FewFeeds)
    \/ CheckStatus
    \/ ParseXml
    \/ LoopEntry
    \/ LoopExit
    \/ Render
    \/ WriteArtifact
    \/ ReadEnv
    \/ SmtpConnect
    \/ StartTls
    \/ Login
    \/ SendMessage
    \/ Quit
    \/ Tick
    \/ NewRun

SpecRuns == Init /\ [][NextRuns]_vars

\* format_email_body alone, applied to lists of records whose summaries are
\* shorter than, as long as and longer than the limit of the slice.
Pattern(n, o) ==
    [k \in 1..n |-> IF (k + o) % 3 = 0 THEN "a" ELSE IF (k + o) % 3 = 1 THEN "b" ELSE "c"]

SummaryLengths == (0..MaxShort) \cup ((SummaryLimit - MaxNear)..(SummaryLimit + MaxNear))

RenderPapers ==
    {[title |-> <<"a">>, summary |-> Pattern(n, o), link |-> <<"u">>, authors |-> <<>>,
      published |-> DateOf(9)] : n \in SummaryLengths, o \in {0, 1}}

InitRender ==
    /\ pc = "render"
    /\ now = StartNow
    /\ env = [SMTP_PORT |-> Unset, SMTP_USER |-> Unset, SMTP_PASS |-> Unset]
    /\ response = NoResponse
    /\ root = <<>>
    /\ i = 1
    /\ seven_days_ago = Cutoff0
    /\ papers \in SeqsUpTo(RenderPapers, MaxPapers)
    /\ email_content = NoDoc
    /\ output_file = 0
    /\ files = {}
    /\ smtp_user = None
    /\ smtp_pass = None
    /\ stdout = <<"Iniciando busca", "Encontrados">>
    /\ calls = <<"requests.get", "ET.fromstring">>
    /\ exc = "none"
    /\ run = 1
    /\ wrote = {}

NextRender ==
    \/ Render
    \/ Tick

SpecRender == InitRender /\ [][NextRender]_vars

-----------------------------------------------------------------------------
(* Helpers of the properties *)

Called(c) == \E k \in 1..Len(calls) : calls[k] = c
Printed(d) == \E k \in 1..Len(stdout) : stdout[k] = d
Ended == pc \in {"done", "crashed"}
EndedNormally == pc = "done" /\ exc = "none"

\* The artifact of this run is in the working directory with the rendered
\* document as its content.
ArtifactWritten == output_file # 0 /\ [name |-> output_file, content |-> email_content] \in files

\* The run died inside the loop of fetch_arxiv_papers, at entry root[i].
DiedInLoop == pc = "crashed" /\ response.status_code = 200 /\ i <= Len(root)

\* An entry whose published element has a timestamp at or after the cutoff.
HasStamp(e) == e.published.node = "text" /\ e.published.text.valid
StampOf(e) == e.published.text.day * TicksPerDay + e.published.text.tod
Recent(e, cutoff) == HasStamp(e) /\ StampOf(e) >= cutoff

\* One record per recent entry, in the order of the feed.
RECURSIVE RecentRecords(_, _)
RecentRecords(feed, cutoff) ==
    IF feed = <<>> THEN <<>>
    ELSE (IF Recent(Head(feed), cutoff)
          THEN <<PaperRecord(Head(feed), StampOf(Head(feed)))>> ELSE <<>>)
         \o RecentRecords(Tail(feed), cutoff)

-----------------------------------------------------------------------------
(* The claims *)

\* C1: on a success status, for every feed, fetch_arxiv_papers returns one
\* record per entry published at or after the cutoff (the cutoff included),
\* in feed order: it does return, and what it returns is that list.
C1_ReturnsRecentInOrder ==
    /\ (pc = "loop" /\ i > Len(root)) => papers = RecentRecords(root, seven_days_ago)
    /\ ~DiedInLoop

\* C2: a transport error of the request or a body that is not XML does not
\* end the run abnormally.
C2_FetchFailureRecovered ==
    ~(pc = "crashed" /\ exc \in {"ConnectionError", "ParseError"})

\* C3: once the mail session has been opened, no failure of connect,
\* starttls, login, send or quit ends the run abnormally; a failed delivery
\* ends the run normally, and the artifact written before still holds the
\* rendered document.
C3_MailFailureCaught ==
    Called("smtplib.SMTP") =>
        /\ pc # "crashed"
        /\ exc = "none"
        /\ ArtifactWritten
        /\ Printed("Erro ao enviar e-mail") => EndedNormally

C3_Witness ==
    /\ pc = "done"
    /\ calls[Len(calls)] = "login"
    /\ stdout[Len(stdout)] = "Erro ao enviar e-mail"
    /\ email_content.kind = "report"
    /\ ArtifactWritten

\* C4: a run whose environment lacks the user or the password ends normally,
\* with the artifact written, no mail call made and the skip reported.
C4_NoCredentialsRun ==
    (Ended /\ (Falsy(Getenv(env.SMTP_USER, None)) \/ Falsy(Getenv(env.SMTP_PASS, None)))) =>
        /\ EndedNormally
        /\ ArtifactWritten
        /\ ~Called("smtplib.SMTP")
        /\ Printed("Pulando envio")

\* C5: after a status other than success the body is never parsed, there are
\* no papers, the placeholder is rendered and written, and the run ends
\* normally.
C5_BadStatusRun ==
    /\ Printed("Erro ao acessar ArXiv API") => (~Called("ET.fromstring") /\ papers = <<>>)
    /\ (Ended /\ Printed("Erro ao acessar ArXiv API")) =>
        /\ EndedNormally
        /\ email_content = Placeholder
        /\ ArtifactWritten

\* C6: an entry whose published timestamp is missing or unparseable raises
\* no error, gives no record, and the entries after it are still processed.
C6_BadTimestampSkipped ==
    /\ ~(DiedInLoop /\ ~HasStamp(root[i]))
    /\ pc = "loop" => papers = RecentRecords(SubSeq(root, 1, i - 1), seven_days_ago)

\* C7: the request is issued exactly once per run, every call is made at
\* most once, in the order fetch, render, write, mail, and the mail session
\* is opened only after the artifact was written and with credentials.
CallOrder ==
    <<"requests.get", "ET.fromstring", "format_email_body", "open",
      "smtplib.SMTP", "starttls", "login", "send_message", "quit">>
Rank(c) == CHOOSE r \in 1..Len(CallOrder) : CallOrder[r] = c

C7_EachCallOnceInOrder ==
    /\ \A j, k \in 1..Len(calls) : j < k => Rank(calls[j]) < Rank(calls[k])
    /\ pc \notin {"main", "get"} => Called("requests.get")
    /\ Called("smtplib.SMTP") =>
          (Called("open") /\ ArtifactWritten /\ ~Falsy(smtp_user) /\ ~Falsy(smtp_pass))
    /\ Called("open") => Called("format_email_body")

C7_Witness ==
    /\ pc = "done"
    /\ calls = CallOrder

\* C8: the title and the summary of every record are neither None nor
\* empty, and building a record raises no error.
C8_TitleNeverEmpty ==
    /\ \A k \in 1..Len(papers) :
          papers[k].title \notin {None, <<>>} /\ papers[k].summary \notin {None, <<>>}
    /\ ~(DiedInLoop /\ exc = "AttributeError")

\* C9: one artifact per day on which a run wrote; its name depends on the
\* date alone and its content is the document of the latest run that wrote
\* on that day, whatever was written on other days.
WriteDays == {w.date : w \in wrote}
LastWrite(d) == CHOOSE w \in wrote : w.date = d /\ \A v \in wrote : v.date = d => v.run <= w.run

C9_OneArtifactPerDay ==
    /\ Cardinality(files) = Cardinality(WriteDays)
    /\ \A v, w \in wrote : v.date = w.date => v.name = w.name
    /\ \A d \in WriteDays : [name |-> LastWrite(d).name, content |-> LastWrite(d).content] \in files

C9_Witness ==
    /\ Cardinality(files) = 2
    /\ \E v, w \in wrote : v.date = w.date /\ v.run < w.run /\ v.content # w.content
    /\ \E v, w \in wrote : v.date # w.date /\ v.run < w.run

\* C10: the content of the rendered summary line, between the fixed opening
\* and the ellipsis marker, is the first min(len(summary), 500) characters of
\* the summary, and the marker follows it whatever the length.
LineContent(line) == SubSeq(line, 2, Len(line) - 2)

C10_TruncationLaw ==
    pc = "write" =>
        \A k \in 1..Len(papers) :
            LET line == email_content.blocks[k].resumo
                s == papers[k].summary
            IN  /\ Len(LineContent(line)) = Min(Len(s), 500)
                /\ \A j \in 1..Len(LineContent(line)) : LineContent(line)[j] = s[j]
                /\ line[Len(line) - 1] = "..."

C10_Witness ==
    /\ pc = "write"
    /\ \E k \in 1..Len(papers) : Len(papers[k].summary) > 500
    /\ \E k \in 1..Len(papers) : Len(papers[k].summary) < 500

====
